---- MODULE Spec2Model ----
(***************************************************************************)
(* SzReader (seismic_zfp/read.py): random-access reads of an SZ file.      *)
(*                                                                         *)
(* Bytes are not enumerated.  A byte string is a sequence of runs          *)
(* [src, len]: len consecutive file bytes starting at file offset src, or  *)
(* (src = Zero) len zero bytes of a freshly allocated bytearray.  Python   *)
(* tuples are 0-based, TLA+ tuples 1-based: shape_pad[1] in the source is  *)
(* shape_pad[2] here.  All quantities are non-negative, so Python's // is  *)
(* \div and % is %.                                                        *)
(***************************************************************************)
EXTENDS Integers, Sequences, FiniteSets, TLC

VARIABLES header,      \* the header fields stored in the file
          file_bytes,  \* length of the file in bytes
          reader,      \* the SzReader object (its attributes), once constructed
          pc,          \* position of the client / of the running read_zslice
          op,          \* the read method called last
          args,        \* its arguments
          reads,       \* the seek+read pairs a sequential method issued, in order
          buffer,      \* the compressed buffer of the call
          shape,       \* the shape handed to decompress
          ranges,      \* read_zslice: np.array_split(block_ids, n_threads)
          threads,     \* read_zslice: state of each worker thread
          idx,         \* read_zslice: loop index of the start / join loop
          status       \* how the call ended

vars == <<header, file_bytes, reader, pc, op, args, reads, buffer, shape,
          ranges, threads, idx, status>>

(***************************************************************************)
(* Bounds of the model.                                                    *)
(***************************************************************************)
MaxIlines == 5
MaxXlines == 5
MaxSamples == 5
MaxRate == 3
MaxShift == 1
MaxHeaderBlocks == 1
MaxBlocks == 70

(***************************************************************************)
(* Program constants.                                                      *)
(***************************************************************************)
DISK_BLOCK_BYTES == 4096
n_threads == 32

Zero == 0 - 1

Min(a, b) == IF a < b THEN a ELSE b
Max(a, b) == IF a > b THEN a ELSE b

(***************************************************************************)
(* Byte strings as run sequences.                                          *)
(***************************************************************************)
RECURSIVE BufLen(_)
BufLen(b) == IF b = <<>> THEN 0 ELSE Head(b).len + BufLen(Tail(b))

Adjacent(r, s) ==
    \/ r.src = Zero /\ s.src = Zero
    \/ r.src # Zero /\ s.src # Zero /\ s.src = r.src + r.len

\* canonical form: no empty run, adjacent runs merged
RECURSIVE Normalize(_)
Normalize(b) ==
    IF b = <<>> THEN <<>>
    ELSE IF Head(b).len = 0 THEN Normalize(Tail(b))
    ELSE LET rest == Normalize(Tail(b)) IN
         IF rest # <<>> /\ Adjacent(Head(b), Head(rest))
         THEN <<[src |-> Head(b).src, len |-> Head(b).len + Head(rest).len]>>
              \o Tail(rest)
         ELSE <<Head(b)>> \o rest

\* b[0:n]
RECURSIVE Take(_, _)
Take(b, n) ==
    IF n <= 0 \/ b = <<>> THEN <<>>
    ELSE IF Head(b).len <= n THEN <<Head(b)>> \o Take(Tail(b), n - Head(b).len)
    ELSE <<[src |-> Head(b).src, len |-> n]>>

\* b[n:]
RECURSIVE Drop(_, _)
Drop(b, n) ==
    IF b = <<>> THEN <<>>
    ELSE IF n <= 0 THEN b
    ELSE IF Head(b).len <= n THEN Drop(Tail(b), n - Head(b).len)
    ELSE <<[src |-> IF Head(b).src = Zero THEN Zero ELSE Head(b).src + n,
            len |-> Head(b).len - n]>> \o Tail(b)

\* b[lo:hi]
Slice(b, lo, hi) == Normalize(Take(Drop(b, lo), hi - lo))

\* bytearray(n)
ByteArray(n) == Normalize(<<[src |-> Zero, len |-> n]>>)

\* buffer[lo:hi] = data on a bytearray: the slice is clamped to the buffer and
\* replaced by data whatever data's length, so the bytearray is resized when
\* data is shorter than the slice
SliceAssign(b, lo, hi, data) ==
    LET n == BufLen(b)
        l == Min(lo, n)
        h == Max(Min(hi, n), l)
    IN  Normalize(Take(b, l) \o data \o Drop(b, h))

\* f.seek(pos, 0); f.read(n): the bytes the file holds in [pos, pos + n).
\* Seeking past the end is no error and a read at or past the end is short.
FileRead(pos, n) ==
    Normalize(<<[src |-> pos, len |-> Max(0, Min(n, file_bytes - pos))]>>)


(***************************************************************************)
(* utils.pad                                                               *)
(***************************************************************************)
pad(orig, multiple) ==
    IF orig % multiple = 0 THEN orig ELSE multiple * (orig \div multiple + 1)

(***************************************************************************)
(* SzReader.__init__                                                       *)
(***************************************************************************)
\* 2048 // rate divides by zero when rate = 0, and pad(.., 2048 // rate)
\* takes a remainder by zero when rate > 2048
DivisionByZero(h) == h.rate = 0 \/ 2048 \div h.rate = 0

\* the attributes __init__ sets
Attributes(h) ==
    LET bz == 2048 \div h.rate
        shape_pad == <<pad(h.ilines, 4), pad(h.xlines, 4), pad(h.tracelength, bz)>>
        blockshape == <<4, 4, bz>>
        block_bytes == (blockshape[1] * blockshape[2] * blockshape[3] * h.rate) \div 8
    IN  [header_blocks |-> h.header_blocks,
         tracelength |-> h.tracelength,
         xlines |-> h.xlines,
         ilines |-> h.ilines,
         rate |-> h.rate,
         shape_pad |-> shape_pad,
         blockshape |-> blockshape,
         unit_bytes |-> ((4 * 4 * 4) * h.rate) \div 8,
         block_bytes |-> block_bytes,
         chunk_bytes |-> block_bytes * (shape_pad[3] \div blockshape[3]),
         data_start_bytes |-> h.header_blocks * DISK_BLOCK_BYTES]

\* the assertion left out (or compiled away)
AssertDisabled(r) == TRUE

\* assert self.block_bytes == DISK_BLOCK_BYTES
AssertBlockBytes(r) == r.block_bytes = DISK_BLOCK_BYTES

NoReader == [rate |-> 0]

(***************************************************************************)
(* pyzfp.decompress(buffer, shape, dtype, rate): fixed-rate zfp.  The      *)
(* stream is the 4x4x4 units of the array in C order, 64 * rate bits each. *)
(* Bytes after the last unit are ignored.  A buffer shorter than the       *)
(* stream makes the codec read past the buffer: it may fault, or return    *)
(* with the units it could not read undefined.                             *)
(***************************************************************************)
CeilDiv(a, b) == (a + b - 1) \div b

StreamBytes(shp, rate) ==
    CeilDiv(shp[1], 4) * CeilDiv(shp[2], 4) * CeilDiv(shp[3], 4) * ((64 * rate) \div 8)

DecompressOutcomes(buf, shp, rate) ==
    IF BufLen(buf) >= StreamBytes(shp, rate) /\ BufLen(buf) > 0
    THEN {"returned"}
    ELSE {"returned", "codec_fault"}

Undefined == [unit |-> Zero, pos |-> <<0, 0, 0>>]

\* decompressed[a, b, c]: the stored voxel it was decoded from, named by the
\* file offset of its unit and the position inside the unit
Decompressed(buf, shp, rate, a, b, c) ==
    LET u == (64 * rate) \div 8
        k == ((a \div 4) * CeilDiv(shp[2], 4) + (b \div 4)) * CeilDiv(shp[3], 4)
             + (c \div 4)
        piece == Slice(buf, k * u, (k + 1) * u)
    IN  IF a < shp[1] /\ b < shp[2] /\ c < shp[3]
           /\ Len(piece) = 1 /\ piece[1].len = u /\ piece[1].src # Zero
        THEN [unit |-> piece[1].src, pos |-> <<a % 4, b % 4, c % 4>>]
        ELSE Undefined

(***************************************************************************)
(* SzReader.read_inline                                                    *)
(***************************************************************************)
InlineFetch(r, il_id) ==
    LET il_block_offset == ((r.chunk_bytes * r.shape_pad[2]) \div 4) * (il_id \div 4)
        offset == r.data_start_bytes + il_block_offset
        length == r.chunk_bytes * r.shape_pad[2]
        data == FileRead(offset, length)
    IN  [reads |-> <<[offset |-> offset, length |-> length, got |-> BufLen(data)]>>,
         buffer |-> data,
         shape |-> <<r.blockshape[1], r.shape_pad[2], r.shape_pad[3]>>]

(***************************************************************************)
(* SzReader.read_crossline                                                 *)
(***************************************************************************)
\* the stride of one chunk, not of one row of chunks
ChunkStride(r) == r.chunk_bytes

xl_chunk_increment(r) == (r.chunk_bytes * r.shape_pad[2]) \div 4

RECURSIVE CrosslineLoop(_, _, _, _, _)
CrosslineLoop(r, xl_id, chunk_num, buf, log) ==
    IF chunk_num >= r.shape_pad[1] \div 4 THEN [buffer |-> buf, reads |-> log]
    ELSE LET xl_first_chunk_offset == (xl_id \div 4) * r.chunk_bytes
             offset == r.data_start_bytes + xl_first_chunk_offset
                       + chunk_num * xl_chunk_increment(r)
             data == FileRead(offset, r.chunk_bytes)
         IN  CrosslineLoop(r, xl_id, chunk_num + 1,
                 SliceAssign(buf, chunk_num * r.chunk_bytes,
                             (chunk_num + 1) * r.chunk_bytes, data),
                 Append(log, [offset |-> offset, length |-> r.chunk_bytes,
                              got |-> BufLen(data)]))

CrosslineFetch(r, xl_id) ==
    LET f == CrosslineLoop(r, xl_id, 0,
                 ByteArray((r.chunk_bytes * r.shape_pad[1]) \div 4), <<>>)
    IN  [reads |-> f.reads, buffer |-> f.buffer,
         shape |-> <<r.shape_pad[1], r.blockshape[2], r.shape_pad[3]>>]

(***************************************************************************)
(* SzReader.read_subvolume                                                 *)
(***************************************************************************)
UnitsSpanned(lo, hi) == (hi + 4) \div 4 - lo \div 4

\* the two nested loops, n = i * xl_units + x
RECURSIVE SubvolumeLoop(_, _, _, _, _, _, _, _)
SubvolumeLoop(r, a, il_units, xl_units, z_units, n, buf, log) ==
    IF il_units <= 0 \/ xl_units <= 0 \/ n >= il_units * xl_units
    THEN [buffer |-> buf, reads |-> log]
    ELSE LET i == n \div xl_units
             x == n % xl_units
             read_length == r.unit_bytes * z_units
             offset == r.data_start_bytes + r.unit_bytes * (
                   (i + (a[1] \div 4)) * (r.shape_pad[2] \div 4) * (r.shape_pad[3] \div 4)
                   + (x + (a[3] \div 4)) * (r.shape_pad[3] \div 4)
                   + (a[5] \div 4))
             buf_start == (i * xl_units * z_units + x * z_units) * r.unit_bytes
             buf_end == buf_start + read_length
             data == FileRead(offset, read_length)
         IN  SubvolumeLoop(r, a, il_units, xl_units, z_units, n + 1,
                 SliceAssign(buf, buf_start, buf_end, data),
                 Append(log, [offset |-> offset, length |-> read_length,
                              got |-> BufLen(data)]))

\* a = <<min_il, max_il, min_xl, max_xl, min_z, max_z>>
SubvolumeFetch(r, a) ==
    LET z_units == UnitsSpanned(a[5], a[6])
        xl_units == UnitsSpanned(a[3], a[4])
        il_units == UnitsSpanned(a[1], a[2])
        f == SubvolumeLoop(r, a, il_units, xl_units, z_units, 0,
                 ByteArray(z_units * xl_units * il_units * r.unit_bytes), <<>>)
    IN  [reads |-> f.reads, buffer |-> f.buffer,
         shape |-> <<il_units * 4, xl_units * 4, z_units * 4>>]


(***************************************************************************)
(* SzReader.read_zslice                                                    *)
(***************************************************************************)
\* np.array_split(np.arange(n_items), sections)[i]: the first
\* n_items % sections groups hold n_items // sections + 1 ids, the others
\* n_items // sections
SplitWithoutExtras(n_items, sections, i) ==
    LET each == n_items \div sections
        extras == n_items % sections
        first == i * each
        size == each + (IF i < extras THEN 1 ELSE 0)
    IN  [k \in 1..size |-> first + k - 1]

SplitGroup(n_items, sections, i) ==
    LET each == n_items \div sections
        extras == n_items % sections
        first == i * each + Min(i, extras)
        size == each + (IF i < extras THEN 1 ELSE 0)
    IN  [k \in 1..size |-> first + k - 1]

ArraySplit(n_items, sections) ==
    [i \in 0..(sections - 1) |-> SplitGroup(n_items, sections, i)]

zslice_first_block_offset(r, zslice_id) == zslice_id \div r.blockshape[3]

zslice_unit_in_block(r, zslice_id) == (zslice_id % r.blockshape[3]) \div 4

\* threadfuncs.zslice_threadfunc, one iteration: where the worker reads the
\* unit of chunk block_num, and the slice of the shared buffer it fills
WorkerOffset(r, zslice_id, block_num) ==
    r.data_start_bytes + block_num * r.chunk_bytes
    + zslice_first_block_offset(r, zslice_id) * r.block_bytes
    + zslice_unit_in_block(r, zslice_id) * r.unit_bytes

WorkerSliceStart(r, block_num) == block_num * r.unit_bytes

NewThreads == [i \in 0..(n_threads - 1) |-> [state |-> "new", pos |-> 0]]

Finished(t) == t.state \in {"done", "failed"}

\* a join that does not wait
JoinAtOnce(t) == TRUE

\* t.join() returns once the thread has ended, however it ended
JoinReturns(t) == Finished(t)

(***************************************************************************)
(* The file and the client.                                                *)
(***************************************************************************)
RECURSIVE Pow2(_)
Pow2(n) == IF n = 0 THEN 1 ELSE 2 * Pow2(n - 1)

RateDomain == (0..MaxRate) \cup {512 \div Pow2(j) : j \in 0..MaxShift}

Headers ==
    [header_blocks : 1..MaxHeaderBlocks,
     tracelength : (MaxSamples - 1)..MaxSamples,
     xlines : (MaxXlines - 1)..MaxXlines,
     ilines : (MaxIlines - 1)..MaxIlines,
     rate : RateDomain]

Opens(h) == ~DivisionByZero(h) /\ AssertBlockBytes(Attributes(h))

\* header, then padded_inline_blocks x padded_crossline_blocks chunks
ExactFileBytes(h) ==
    LET r == Attributes(h)
    IN  r.data_start_bytes
        + (r.shape_pad[1] \div 4) * (r.shape_pad[2] \div 4) * r.chunk_bytes

\* a well-formed file, or one that lost its last chunk
FileSizes(h) ==
    IF Opens(h)
    THEN {ExactFileBytes(h), ExactFileBytes(h) - Attributes(h).chunk_bytes}
    ELSE {h.header_blocks * DISK_BLOCK_BYTES}

WellFormed == Opens(header) /\ file_bytes = ExactFileBytes(header)

AxisPairs(extent) == {<<lo, hi>> : lo \in 0..(extent + 1), hi \in 0..(extent + 1)}

SmallPairs == {<<0, 1>>, <<0, 4>>}

\* the boxes the client asks for: every one-voxel box, and every pair of
\* bounds (valid or not) on one axis with a small box on the other two
SubvolumeArgs(r) ==
    {<<il, il + 1, xl, xl + 1, z, z + 1>> :
        il \in 0..(r.ilines - 1), xl \in 0..(r.xlines - 1), z \in 0..(r.tracelength - 1)}
    \cup {<<p[1], p[2], q[1], q[2], s[1], s[2]>> :
            p \in AxisPairs(r.ilines), q \in SmallPairs, s \in SmallPairs}
    \cup {<<q[1], q[2], p[1], p[2], s[1], s[2]>> :
            p \in AxisPairs(r.xlines), q \in SmallPairs, s \in SmallPairs}
    \cup {<<q[1], q[2], s[1], s[2], p[1], p[2]>> :
            p \in AxisPairs(r.tracelength), q \in SmallPairs, s \in SmallPairs}

Init ==
    /\ header \in Headers
    /\ file_bytes \in FileSizes(header)
    /\ reader = NoReader
    /\ pc = "closed"
    /\ op = "none"
    /\ args = <<>>
    /\ reads = <<>>
    /\ buffer = <<>>
    /\ shape = <<0, 0, 0>>
    /\ ranges = <<>>
    /\ threads = NewThreads
    /\ idx = 0
    /\ status = "none"

\* SzReader(file)
Open ==
    /\ pc = "closed"
    /\ IF Opens(header)
       THEN reader' = Attributes(header) /\ pc' = "idle"
       ELSE reader' = NoReader /\ pc' = "open_failed"
    /\ UNCHANGED <<header, file_bytes, op, args, reads, buffer, shape, ranges,
                   threads, idx, status>>

Callable == pc = "idle"

\* a sequential read method, from its call to its return or its exception
Sequential(name, a, f) ==
    /\ op' = name
    /\ args' = a
    /\ reads' = f.reads
    /\ buffer' = f.buffer
    /\ shape' = f.shape
    /\ status' \in DecompressOutcomes(f.buffer, f.shape, reader.rate)
    /\ pc' = "done"
    /\ ranges' = <<>>
    /\ threads' = NewThreads
    /\ idx' = 0
    /\ UNCHANGED <<header, file_bytes, reader>>

ReadInline ==
    /\ Callable
    /\ \E il_id \in 0..reader.ilines :
          Sequential("read_inline", <<il_id>>, InlineFetch(reader, il_id))

ReadCrossline ==
    /\ Callable
    /\ \E xl_id \in 0..reader.xlines :
          Sequential("read_crossline", <<xl_id>>, CrosslineFetch(reader, xl_id))

ReadSubvolume ==
    /\ Callable
    /\ \E a \in SubvolumeArgs(reader) :
          Sequential("read_subvolume", a, SubvolumeFetch(reader, a))

\* read_zslice up to the thread loop
ReadZslice ==
    /\ Callable
    /\ \E zslice_id \in 0..reader.tracelength :
          /\ op' = "read_zslice"
          /\ args' = <<zslice_id>>
    /\ reads' = <<>>
    /\ buffer' = ByteArray(reader.unit_bytes * (reader.shape_pad[1] \div 4)
                           * (reader.shape_pad[2] \div 4))
    /\ shape' = <<reader.shape_pad[1], reader.shape_pad[2], 4>>
    /\ ranges' = ArraySplit((reader.shape_pad[1] \div 4) * (reader.shape_pad[2] \div 4),
                            n_threads)
    /\ threads' = NewThreads
    /\ idx' = 0
    /\ status' = "none"
    /\ pc' = "start"
    /\ UNCHANGED <<header, file_bytes, reader>>

\* threads[i].start().  A thread whose range is empty opens the file, finds
\* nothing to do and exits: it shares nothing with the others, and its whole
\* run is taken with its start.
StartThread ==
    /\ pc = "start"
    /\ threads' = [threads EXCEPT ![idx] =
                      [state |-> IF Len(ranges[idx]) = 0 THEN "done" ELSE "running",
                       pos |-> 0]]
    /\ idx' = IF idx + 1 = n_threads THEN 0 ELSE idx + 1
    /\ pc' = IF idx + 1 = n_threads THEN "join" ELSE "start"
    /\ UNCHANGED <<header, file_bytes, reader, op, args, reads, buffer, shape,
                   ranges, status>>

\* one iteration of a worker's loop: seek, read, store.  The worker raises
\* on a short read and ends without storing anything.
WorkerRead(i) ==
    /\ threads[i].state = "running"
    /\ LET block_num == ranges[i][threads[i].pos + 1]
           data == FileRead(WorkerOffset(reader, args[1], block_num), reader.unit_bytes)
           start == WorkerSliceStart(reader, block_num)
       IN  IF BufLen(data) < reader.unit_bytes
           THEN /\ threads' = [threads EXCEPT ![i].state = "failed"]
                /\ buffer' = buffer
           ELSE /\ buffer' = SliceAssign(buffer, start, start + reader.unit_bytes, data)
                /\ threads' = [threads EXCEPT ![i] =
                      [state |-> IF threads[i].pos + 1 = Len(ranges[i])
                                 THEN "done" ELSE "running",
                       pos |-> threads[i].pos + 1]]
    /\ UNCHANGED <<header, file_bytes, reader, pc, op, args, reads, shape, ranges,
                   idx, status>>

\* t.join() in the second loop
JoinThread ==
    /\ pc = "join"
    /\ JoinReturns(threads[idx])
    /\ idx' = IF idx + 1 = n_threads THEN 0 ELSE idx + 1
    /\ pc' = IF idx + 1 = n_threads THEN "decode" ELSE "join"
    /\ UNCHANGED <<header, file_bytes, reader, op, args, reads, buffer, shape,
                   ranges, threads, status>>

\* decompress(buffer, ...) and the return
DecodeZslice ==
    /\ pc = "decode"
    /\ status' \in DecompressOutcomes(buffer, shape, reader.rate)
    /\ pc' = "done"
    /\ UNCHANGED <<header, file_bytes, reader, op, args, reads, buffer, shape,
                   ranges, threads, idx>>

\* the caller is done with the returned array (or the exception); the buffer
\* and the threads of the call are gone
Return ==
    /\ pc = "done"
    /\ pc' = "idle"
    /\ op' = "none"
    /\ args' = <<>>
    /\ reads' = <<>>
    /\ buffer' = <<>>
    /\ shape' = <<0, 0, 0>>
    /\ ranges' = <<>>
    /\ threads' = NewThreads
    /\ idx' = 0
    /\ status' = "none"
    /\ UNCHANGED <<header, file_bytes, reader>>

Next ==
    \/ Open
    \/ ReadInline
    \/ ReadCrossline
    \/ ReadSubvolume
    \/ ReadZslice
    \/ StartThread
    \/ \E i \in 0..(n_threads - 1) : WorkerRead(i)
    \/ JoinThread
    \/ DecodeZslice
    \/ Return

Spec == Init /\ [][Next]_vars


(***************************************************************************)
(* The partition of the zslice plan on its own: array_split for every      *)
(* number of unit ranges up to MaxBlocks, the groups then visited in       *)
(* thread order and their ids appended to the list of ids handed out.      *)
(***************************************************************************)
InitSplit ==
    /\ header = CHOOSE h \in Headers : TRUE
    /\ file_bytes = header.header_blocks * DISK_BLOCK_BYTES
    /\ reader = NoReader
    /\ pc = "split"
    /\ op = "array_split"
    /\ \E n_items \in 0..MaxBlocks :
          /\ args = <<n_items>>
          /\ ranges = ArraySplit(n_items, n_threads)
    /\ reads = <<>>
    /\ buffer = <<>>
    /\ shape = <<0, 0, 0>>
    /\ threads = NewThreads
    /\ idx = 0
    /\ status = "none"

HandOut ==
    /\ pc = "split"
    /\ idx < n_threads
    /\ reads' = reads \o ranges[idx]
    /\ idx' = idx + 1
    /\ UNCHANGED <<header, file_bytes, reader, pc, op, args, buffer, shape, ranges,
                   threads, status>>

SpecGather == (Init \/ InitSplit) /\ [][Next \/ HandOut]_vars

(***************************************************************************)
(* What the methods return.                                                *)
(***************************************************************************)
\* decompressed[il_id % self.blockshape[0], xl, z]
InlineEntry(xl, z) ==
    Decompressed(buffer, shape, reader.rate, args[1] % reader.blockshape[1], xl, z)

\* decompressed[il, xl_id % self.blockshape[1], z]
CrosslineEntry(il, z) ==
    Decompressed(buffer, shape, reader.rate, il, args[1] % reader.blockshape[2], z)

\* decompressed[il, xl, zslice_id % 4]
ZsliceEntry(il, xl) ==
    Decompressed(buffer, shape, reader.rate, il, xl, args[1] % 4)

\* decompressed[min_il%4 + i, min_xl%4 + j, min_z%4 + k]
SubvolumeEntry(i, j, k) ==
    Decompressed(buffer, shape, reader.rate,
                 (args[1] % 4) + i, (args[3] % 4) + j, (args[5] % 4) + k)

(***************************************************************************)
(* Properties.                                                             *)
(***************************************************************************)
Done(name) == pc = "done" /\ op = name

Ilines == 0..(reader.ilines - 1)
Xlines == 0..(reader.xlines - 1)
Samples == 0..(reader.tracelength - 1)

\* the voxel (il, xl, z) as the file stores it: its 4x4x4 unit, units laid
\* out in (inline-block, crossline-block, z-unit) order, and its position
\* inside the unit
Stored(il, xl, z) ==
    [unit |-> reader.data_start_bytes + reader.unit_bytes *
                 (((il \div 4) * (reader.shape_pad[2] \div 4) + (xl \div 4))
                      * (reader.shape_pad[3] \div 4) + (z \div 4)),
     pos |-> <<il % 4, xl % 4, z % 4>>]

ValidBounds(lo, hi, extent) == 0 <= lo /\ lo < hi /\ hi <= extent

ValidBox(a) ==
    /\ ValidBounds(a[1], a[2], reader.ilines)
    /\ ValidBounds(a[3], a[4], reader.xlines)
    /\ ValidBounds(a[5], a[6], reader.tracelength)

UnitBox(a) == ValidBox(a) /\ a[2] = a[1] + 1 /\ a[4] = a[3] + 1 /\ a[6] = a[5] + 1

ValidCall ==
    \/ op = "read_inline" /\ args[1] \in Ilines
    \/ op = "read_crossline" /\ args[1] \in Xlines
    \/ op = "read_zslice" /\ args[1] \in Samples
    \/ op = "read_subvolume" /\ ValidBox(args)

\* C1: on a well-formed file, for every valid (il, xl, z) the calls
\* read_subvolume(il, il+1, xl, xl+1, z, z+1), read_zslice(z) and
\* read_inline(il) all complete, and entry [0,0,0], [il, xl] and [xl, z] of
\* what they return is the stored voxel (il, xl, z): the same unit of the
\* file and the same position inside it.
C1_CrossPatternConsistency ==
    WellFormed =>
      /\ Done("read_subvolume") /\ UnitBox(args) =>
            /\ status = "returned"
            /\ SubvolumeEntry(0, 0, 0) = Stored(args[1], args[3], args[5])
      /\ Done("read_zslice") /\ args[1] \in Samples =>
            /\ status = "returned"
            /\ \A il \in Ilines, xl \in Xlines :
                  ZsliceEntry(il, xl) = Stored(il, xl, args[1])
      /\ Done("read_inline") /\ args[1] \in Ilines =>
            /\ status = "returned"
            /\ \A xl \in Xlines, z \in Samples :
                  InlineEntry(xl, z) = Stored(args[1], xl, z)

\* C2: a read method called with an out-of-range index or with bounds that
\* violate 0 <= lo < hi <= extent ends with a RangeError, having read
\* nothing from the file and decoded nothing.
C2_RejectsOutOfRange ==
    pc = "done" /\ ~ValidCall => status = "RangeError" /\ reads = <<>>

\* C3: when a worker thread of read_zslice has failed, the call fails with
\* the worker's error: it neither decodes the buffer nor returns an array.
C3_GatherAllOrNothing ==
    Done("read_zslice") /\ (\E i \in DOMAIN threads : threads[i].state = "failed")
        => status = "IoError"

\* C4: read_subvolume with valid bounds fetches and decodes exactly
\* (hi - lo) / 4 units along every axis whose two bounds are multiples of 4.
C4_NoExtraUnits ==
    Done("read_subvolume") /\ ValidBox(args) =>
        \A axis \in 1..3 :
            LET lo == args[2 * axis - 1]
                hi == args[2 * axis]
            IN  lo % 4 = 0 /\ hi % 4 = 0 => shape[axis] \div 4 = (hi - lo) \div 4

\* C5: a sequential read method in which a read returned fewer bytes than
\* it asked for (the seek went past the end of the file, or the file ended
\* inside the range) fails with an IoError.
C5_ShortReadFails ==
    pc = "done" /\ op \in {"read_inline", "read_crossline", "read_subvolume"}
       /\ (\E k \in DOMAIN reads : reads[k].got < reads[k].length)
        => status = "IoError"

\* C6: opening a file either fails and leaves no reader, or yields a reader
\* whose block_bytes, 4 * 4 * (2048 // rate) * rate // 8, is exactly 4096;
\* no read method ever runs on a reader with another block size.
C6_BlockBytesAtOpen ==
    /\ pc = "open_failed" => reader = NoReader
    /\ pc \notin {"closed", "open_failed", "split"} =>
          /\ reader.block_bytes = (4 * 4 * (2048 \div header.rate) * header.rate) \div 8
          /\ reader.block_bytes = 4096

C6_Witness == pc = "open_failed" /\ header.rate > 0 /\ 2048 % header.rate # 0

\* C7: on a well-formed file every read method called with valid input hands
\* decompress a buffer of exactly shape[0] * shape[1] * shape[2] * rate / 8
\* bytes; read_inline reads exactly chunk_bytes x padded_crossline_blocks
\* bytes from data_start_bytes + row x that size.
C7_ExactBuffer ==
    WellFormed /\ pc = "done" /\ ValidCall =>
        /\ BufLen(buffer) = (shape[1] * shape[2] * shape[3] * reader.rate) \div 8
        /\ op = "read_inline" =>
              LET row_bytes == reader.chunk_bytes * (reader.shape_pad[2] \div 4)
              IN  reads = <<[offset |-> reader.data_start_bytes
                                        + (args[1] \div 4) * row_bytes,
                             length |-> row_bytes, got |-> row_bytes]>>

\* the buffer one worker leaves that executes the whole plan in plan order
RECURSIVE SequentialGather(_, _, _)
SequentialGather(buf, block_num, n_blocks) ==
    IF block_num >= n_blocks THEN buf
    ELSE SequentialGather(
             SliceAssign(buf, block_num * reader.unit_bytes,
                         (block_num + 1) * reader.unit_bytes,
                         FileRead(WorkerOffset(reader, args[1], block_num),
                                  reader.unit_bytes)),
             block_num + 1, n_blocks)

RECURSIVE Concat(_, _)
Concat(groups, i) ==
    IF i >= n_threads THEN <<>> ELSE groups[i] \o Concat(groups, i + 1)

\* C8: the unit ranges of a zslice plan are split into 32 groups, disjoint,
\* contiguous in plan order and covering every range once (the groups, put
\* one after the other, are the plan); and once every worker has completed,
\* in whatever order they ran, the buffer is the one a single worker leaves
\* that executes the plan in order.
C8_DeterministicGather ==
    /\ pc = "split" =>
          /\ DOMAIN ranges = 0..(n_threads - 1)
          /\ reads = [k \in 1..Len(reads) |-> k - 1]
          /\ idx = n_threads => Len(reads) = args[1]
    /\ op = "read_zslice" =>
          LET n_blocks == (reader.shape_pad[1] \div 4) * (reader.shape_pad[2] \div 4)
          IN  /\ DOMAIN ranges = 0..(n_threads - 1)
              /\ Concat(ranges, 0) = [k \in 1..n_blocks |-> k - 1]
              /\ \A b1, b2 \in 0..(n_blocks - 1) :
                    b1 < b2 => WorkerSliceStart(reader, b1) + reader.unit_bytes
                               <= WorkerSliceStart(reader, b2)
              /\ pc \in {"decode", "done"}
                 /\ (\A i \in DOMAIN threads : threads[i].state = "done")
                    => buffer = SequentialGather(
                                   ByteArray(reader.unit_bytes * n_blocks), 0, n_blocks)

C8_Witness ==
    /\ op = "read_zslice" /\ pc = "decode"
    /\ \A i \in DOMAIN threads : threads[i].state = "done"
    /\ Cardinality({i \in DOMAIN threads : threads[i].pos > 0}) >= 4

\* C9: read_zslice reaches decompress, and returns, only when every one of
\* the 32 worker threads has been started and has ended.
C9_JoinBarrier ==
    op = "read_zslice" /\ pc \in {"decode", "done"} =>
        \A i \in DOMAIN threads : Finished(threads[i])

C9_Witness ==
    /\ op = "read_zslice" /\ pc = "decode"
    /\ \E i \in DOMAIN threads : threads[i].pos > 0
    /\ \A i \in DOMAIN threads : Finished(threads[i])

\* C10: on a well-formed file read_crossline(xl) issues padded_inline / 4
\* reads of chunk_bytes bytes, the k-th at data_start_bytes
\* + (xl // 4) * chunk_bytes + k * chunk_bytes * (padded_crossline / 4),
\* stored at slot k of the buffer; entry [il, z] of what it returns and
\* entry [xl, z] of what read_inline(il) returns are the stored voxel
\* (il, xl, z).
C10_CrosslineMatchesInline ==
    WellFormed =>
      /\ Done("read_crossline") /\ args[1] \in Xlines =>
            /\ Len(reads) = reader.shape_pad[1] \div 4
            /\ \A k \in 0..(Len(reads) - 1) :
                  LET at == reader.data_start_bytes
                            + (args[1] \div 4) * reader.chunk_bytes
                            + k * reader.chunk_bytes * (reader.shape_pad[2] \div 4)
                  IN  /\ reads[k + 1] = [offset |-> at, length |-> reader.chunk_bytes,
                                         got |-> reader.chunk_bytes]
                      /\ Slice(buffer, k * reader.chunk_bytes,
                               (k + 1) * reader.chunk_bytes)
                         = <<[src |-> at, len |-> reader.chunk_bytes]>>
            /\ status = "returned"
            /\ \A il \in Ilines, z \in Samples :
                  CrosslineEntry(il, z) = Stored(il, args[1], z)
      /\ Done("read_inline") /\ args[1] \in Ilines /\ status = "returned" =>
            \A xl \in Xlines, z \in Samples :
                InlineEntry(xl, z) = Stored(args[1], xl, z)

C10_Witness ==
    /\ WellFormed /\ Done("read_crossline") /\ status = "returned"
    /\ args[1] \in Xlines /\ args[1] >= 4
    /\ Len(reads) >= 2

====
